---------------------------- MODULE Spec2Model ----------------------------
(***************************************************************************)
(* A model of MLx's TextLoader (src/DataProviders/TextLoader.cpp): the     *)
(* header analysis of the TextLoader constructor, the ExampleParser        *)
(* hierarchy (label map, DenseParser, SparseParser) and the streaming      *)
(* cursor TextLoader::State (Reset / MoveNext, file-backed and cached).    *)
(*                                                                         *)
(* Text.  A field (one column of a line) is a sequence of one-character    *)
(* strings; a line is the sequence of its fields, i.e. what                *)
(* Split(line, separator) returns; the empty line splits into one empty    *)
(* field.  Floats are modelled by the integers the literals denote (the    *)
(* alphabet holds no fraction point).  Arrays are functions on 0..n-1, as  *)
(* in the source.                                                          *)
(*                                                                         *)
(* Undefined behaviour (a read or write outside an array) is never given   *)
(* a value: a read yields the status "UB", a write is recorded in an       *)
(* `oob` field next to the in-bounds content.                              *)
(***************************************************************************)
EXTENDS Integers, Sequences, FiniteSets, TLC

\* ------------------------------------------------------------------ bounds
MaxCols == 5        \* header columns
MaxRowLen == 5      \* fields of a dense data row
MaxTokens == 3      \* index:value tokens of a sparse data row
MaxMapLines == 3    \* lines of a label map file
MaxRows == 3        \* data rows of a file read through the cursor
MaxCalls == 5       \* MoveNext calls counted since the last Reset

\* -------------------------------------------------------------------- text
Digits == {"0", "1", "2", "3"}

DigitVal(c) == CASE c = "0" -> 0 [] c = "1" -> 1 [] c = "2" -> 2 [] c = "3" -> 3

\* The number of digits of s from position i on.
RECURSIVE DigitRun(_, _)
DigitRun(s, i) ==
    IF i <= Len(s) /\ s[i] \in Digits THEN 1 + DigitRun(s, i + 1) ELSE 0

\* The base-10 value of the n digits of s from position i, acc so far.
RECURSIVE DigitsValue(_, _, _, _)
DigitsValue(s, i, n, acc) ==
    IF n = 0 THEN acc ELSE DigitsValue(s, i + 1, n - 1, 10 * acc + DigitVal(s[i]))

\* strtol(column, &rest, 10): an optional sign, then digits.  rest is the
\* position of the first character not consumed; rest = 1 is rest == column
\* (no conversion).  No token of the model is long enough to overflow, so
\* errno is left as it was.
Strtol(s) ==
    LET neg == Len(s) >= 1 /\ s[1] = "-"
        start == IF neg THEN 2 ELSE 1
        n == DigitRun(s, start)
        v == DigitsValue(s, start, n, 0)
    IN  IF n = 0 THEN [value |-> 0, rest |-> 1]
        ELSE [value |-> IF neg THEN 0 - v ELSE v, rest |-> start + n]

\* strtof(p, NULL) on the tail of s from position from: the value of the
\* longest numeric prefix, 0 when there is none; no error is reported.
Strtof(s, from) ==
    Strtol(SubSeq(s, from, Len(s))).value

\* std::stof: throws std::invalid_argument when nothing converts; what
\* follows the number is ignored.
Stof(s) ==
    LET r == Strtol(s)
    IN  IF r.rest = 1 THEN [ok |-> FALSE, value |-> 0]
        ELSE [ok |-> TRUE, value |-> r.value]

\* The empty line, split: one empty field.
EmptyLine == << <<>> >>

\* columns[i] of a 0-based StrVec held as a sequence.
Col(columns, i) == columns[i + 1]

InRow(columns, i) == 0 <= i /\ i < Len(columns)

\* --------------------------------------------------- header analysis
\* The loop over the header columns: the first unmarked column becomes the
\* label when none was given, every other unmarked column a feature name.
\* A header column's name is its index.
RECURSIVE InferLoop(_, _, _)
InferLoop(i, n, st) ==
    IF i >= n THEN st
    ELSE IF st.isNonFeature[i] THEN InferLoop(i + 1, n, st)
    ELSE IF st.labelCol = -1
         THEN InferLoop(i + 1, n,
                  [st EXCEPT !.isNonFeature[i] = TRUE, !.labelCol = i])
         ELSE InferLoop(i + 1, n,
                  [st EXCEPT !.featureNames = Append(@, i)])

\* Marking a designated column non-feature: isNonFeature[c] = true.  An
\* index outside the vector is a write outside it.
Mark(st, c) ==
    IF c \in DOMAIN st.isNonFeature
    THEN [st EXCEPT !.isNonFeature[c] = TRUE]
    ELSE [st EXCEPT !.oob = TRUE]

\* The column the weight branch marks.
WeightMarkTarget(wCol, nCol) == nCol

\* Header analysis of the constructor for a header of n columns.
AnalyzeHeader(n, lCol, wCol, nCol) ==
    LET st0 == [status |-> "ok", isNonFeature |-> [i \in 0..(n - 1) |-> FALSE],
                labelCol |-> lCol, featureNames |-> <<>>, oob |-> FALSE]
        bad == [st0 EXCEPT !.status = "domain_error"]
        InRange(c) == 0 <= c /\ c < n
    IN  IF lCol # -1 /\ ~InRange(lCol) THEN bad
        ELSE LET st1 == IF lCol # -1 THEN Mark(st0, lCol) ELSE st0
             IN  IF nCol # -1 /\ ~InRange(nCol) THEN bad
                 ELSE LET st2 == IF nCol # -1 THEN Mark(st1, nCol) ELSE st1
                      IN  IF wCol # -1 /\ ~InRange(wCol) THEN bad
                          ELSE LET st3 == IF wCol # -1
                                          THEN Mark(st2, WeightMarkTarget(wCol, nCol))
                                          ELSE st2
                               IN  InferLoop(0, n, st3)

\* ---------------------------------------------------------- label map
\* labelMapFile: given is FALSE for the empty path, lines is what
\* ReadAllLines returns for the file.
NoFile == [given |-> FALSE, lines |-> <<>>]

\* The one-column form: every line is a key, numbered from 0 in file order.
RECURSIVE EnumerateKeys(_, _, _, _)
EnumerateKeys(lines, i, counter, map) ==
    IF i > Len(lines) THEN [status |-> "ok", labelMap_ |-> map]
    ELSE IF lines[i] \in DOMAIN map
         THEN [status |-> "FormatException", labelMap_ |-> <<>>]
         ELSE EnumerateKeys(lines, i + 1, counter + 1, (lines[i] :> counter) @@ map)

\* The two-column form: key <TAB> value.
RECURSIVE ReadPairs(_, _, _)
ReadPairs(lines, i, map) ==
    IF i > Len(lines) THEN [status |-> "ok", labelMap_ |-> map]
    ELSE IF Len(lines[i]) # 2 \/ ~Stof(lines[i][2]).ok
         THEN [status |-> "FormatException", labelMap_ |-> <<>>]
         ELSE ReadPairs(lines, i + 1,
                        (<<lines[i][1]>> :> Stof(lines[i][2]).value) @@ map)

\* A constructor whose enumeration starts at 1.
LoadLabelMap_CountFromOne(labelMapFile) ==
    LET lines == labelMapFile.lines
    IN
    IF ~labelMapFile.given THEN [status |-> "ok", labelMap_ |-> <<>>]
    ELSE IF ~(Len(lines) > 1) THEN [status |-> "FormatException", labelMap_ |-> <<>>]
    ELSE IF ~(Len(lines[1]) <= 2) THEN [status |-> "FormatException", labelMap_ |-> <<>>]
    ELSE IF Len(lines[1]) = 1 THEN EnumerateKeys(lines, 1, 1, <<>>)
    ELSE ReadPairs(lines, 1, <<>>)

\* ExampleParser's constructor: the label map of the file's lines.
LoadLabelMap(labelMapFile) ==
    LET lines == labelMapFile.lines
    IN
    IF ~labelMapFile.given THEN [status |-> "ok", labelMap_ |-> <<>>]
    ELSE IF ~(Len(lines) > 1) THEN [status |-> "FormatException", labelMap_ |-> <<>>]
    ELSE IF ~(Len(lines[1]) <= 2) THEN [status |-> "FormatException", labelMap_ |-> <<>>]
    ELSE IF Len(lines[1]) = 1 THEN EnumerateKeys(lines, 1, 0, <<>>)
    ELSE ReadPairs(lines, 1, <<>>)

\* ------------------------------------------------------------- size_t
\* A size_t is held as an integer, a negative n standing for 2^64 + n (the
\* value an int n < 0 converts to, and the value a - b wraps to when a < b).
\* USizeLess is < on the values stood for.
USizeLess(a, b) ==
    IF (a < 0) = (b < 0) THEN a < b ELSE b < 0

USizeLeq(a, b) == a = b \/ USizeLess(a, b)

\* ------------------------------------------------------- DenseParser
\* DenseParser's constructor: the indices of the columns not marked
\* non-feature, ascending.
RECURSIVE CollectIndices(_, _, _, _)
CollectIndices(nonFeature, i, n, acc) ==
    IF i >= n THEN acc
    ELSE CollectIndices(nonFeature, i + 1, n,
                        IF nonFeature[i] THEN acc ELSE Append(acc, i))

\* The fill loop of DenseParser::ParseFeatures from feature i on.
RECURSIVE DenseFill(_, _, _, _)
DenseFill(p, columns, i, features) ==
    IF i >= p.dimension_ THEN [status |-> "Vector", oob |-> {},
                               vec |-> [kind |-> "dense", values |-> features]]
    ELSE IF i >= Len(p.parseIndices_) \/ ~InRow(columns, p.parseIndices_[i + 1])
         THEN [status |-> "UB"]
    ELSE LET f == Stof(Col(columns, p.parseIndices_[i + 1]))
         IN  IF ~f.ok THEN [status |-> "invalid_argument"]
             ELSE DenseFill(p, columns, i + 1, Append(features, f.value))

\* The column-count check of DenseParser::ParseFeatures.
DenseEnoughColumns(p, columns) ==
    Len(columns) > p.parseIndices_[Len(p.parseIndices_)]

\* DenseParser::ParseFeatures.  back() of an empty parseIndices_ is undefined.
DenseParseFeatures(p, columns) ==
    IF p.parseIndices_ = <<>> THEN [status |-> "UB"]
    ELSE IF ~DenseEnoughColumns(p, columns) THEN [status |-> "FormatException"]
    ELSE DenseFill(p, columns, 0, <<>>)

\* ------------------------------------------------------ SparseParser
\* featureColumnOffset_ as the constructor computes it.
FeatureColumnOffset(wCol, nCol) ==
    1 + (IF wCol < 0 THEN 0 ELSE 1) + (IF nCol < 0 THEN 0 ELSE 1)

\* The constructor's CheckArg: each int index is compared with the size_t
\* offset, hence as a size_t.
SparseColumnsInFront(lCol, wCol, nCol) ==
    LET off == FeatureColumnOffset(wCol, nCol)
    IN  USizeLess(lCol, off) /\ USizeLess(wCol, off) /\ USizeLess(nCol, off)

\* The array position the loop writes the i-th token's pair to (j runs from
\* the offset beside i).
SparseWriteIndex(i, offset) == i + offset

\* The token loop of SparseParser::ParseFeatures: i counts the tokens, st
\* holds lastIndex, the two arrays of length count and the positions written
\* outside them.
RECURSIVE SparseLoop(_, _, _, _, _)
SparseLoop(p, columns, count, i, st) ==
    IF i >= count
    THEN [status |-> "Vector", oob |-> st.oob,
          vec |-> [kind |-> "sparse", dimension |-> p.dimension_,
                   indices |-> st.indices, values |-> st.values]]
    ELSE LET column == Col(columns, i + p.featureColumnOffset_)
             r == Strtol(column)
             index == r.value
             j == SparseWriteIndex(i, p.featureColumnOffset_)
         IN  IF r.rest = 1 \/ r.rest > Len(column) \/ column[r.rest] # ":"
             THEN [status |-> "FormatException", oob |-> st.oob]
             ELSE IF index <= st.lastIndex \/ index >= p.dimension_
             THEN [status |-> "FormatException", oob |-> st.oob]
             ELSE LET value == Strtof(column, r.rest + 1)
                  IN  SparseLoop(p, columns, count, i + 1,
                        IF j < count
                        THEN [st EXCEPT !.indices[j] = index, !.values[j] = value,
                                        !.lastIndex = index]
                        ELSE [st EXCEPT !.oob = @ \cup {j}, !.lastIndex = index])

\* SparseParser::ParseFeatures.  count is a size_t difference.
SparseParseFeatures(p, columns) ==
    LET count == Len(columns) - p.featureColumnOffset_
    IN  IF ~(USizeLess(0, count) /\ USizeLeq(count, p.dimension_))
        THEN [status |-> "FormatException", oob |-> {}]
        ELSE SparseLoop(p, columns, count, 0,
                        [lastIndex |-> -1, oob |-> {},
                         indices |-> [k \in 0..(count - 1) |-> 0],
                         values |-> [k \in 0..(count - 1) |-> 0]])

\* ----------------------------------------------------- ExampleParser
NullName == <<"null">>

ParseFeatures(p, columns) ==
    IF p.kind = "sparse" THEN SparseParseFeatures(p, columns)
    ELSE DenseParseFeatures(p, columns)

\* The label of a line: through the label map when it is not empty, else
\* as a float.
ParseLabel(p, columns) ==
    IF ~InRow(columns, p.labelCol_) THEN [status |-> "UB", value |-> 0]
    ELSE LET text == Col(columns, p.labelCol_)
         IN  IF DOMAIN p.labelMap_ = {}
             THEN IF Stof(text).ok THEN [status |-> "ok", value |-> Stof(text).value]
                  ELSE [status |-> "invalid_argument", value |-> 0]
             ELSE IF <<text>> \in DOMAIN p.labelMap_
                  THEN [status |-> "ok", value |-> p.labelMap_[<<text>>]]
                  ELSE [status |-> "out_of_range", value |-> 0]

ParseWeight(p, columns) ==
    IF p.weightCol_ >= 0
    THEN IF ~InRow(columns, p.weightCol_) THEN [status |-> "UB", value |-> 0]
         ELSE IF Stof(Col(columns, p.weightCol_)).ok
              THEN [status |-> "ok", value |-> Stof(Col(columns, p.weightCol_)).value]
              ELSE [status |-> "invalid_argument", value |-> 0]
    ELSE [status |-> "ok", value |-> 1]

\* ExampleParser::Parse.  The label, then the weight, then the arguments of
\* new Example(...): the feature vector and the name, which the compiler
\* may evaluate in either order (nameFirst).
Parse(p, columns, nameFirst) ==
    LET label == ParseLabel(p, columns)
        weight == ParseWeight(p, columns)
        nameOut == p.nameCol_ >= 0 /\ ~InRow(columns, p.nameCol_)
        name == IF p.nameCol_ >= 0 /\ ~nameOut THEN Col(columns, p.nameCol_)
                ELSE NullName
        fv == ParseFeatures(p, columns)
    IN  IF label.status # "ok" THEN [status |-> label.status]
        ELSE IF weight.status # "ok" THEN [status |-> weight.status]
        ELSE IF nameFirst /\ nameOut THEN [status |-> "UB"]
        ELSE IF fv.status # "Vector" THEN [status |-> fv.status]
        ELSE IF nameOut THEN [status |-> "UB"]
        ELSE [status |-> "Example",
              example |-> [features |-> fv.vec, oob |-> fv.oob, label |-> label.value,
                           weight |-> weight.value, name |-> name]]

\* ------------------------------------------------ parser construction
NoParser == [status |-> "none"]

\* The probe of the first data row and the construction of the matching
\* parser: count is firstInstanceColumnCount, lay the header analysis.
ConstructParser(n, lay, cfg, count) ==
    IF ~(count <= n) THEN [status |-> "domain_error", isSparse_ |-> FALSE]
    ELSE
    LET sparse == count < n
        lm == LoadLabelMap(cfg.labelMapFile)
        base == [status |-> "ok", isSparse_ |-> sparse,
                 kind |-> IF sparse THEN "sparse" ELSE "dense",
                 dimension_ |-> Len(lay.featureNames),
                 labelCol_ |-> lay.labelCol, weightCol_ |-> cfg.weightCol,
                 nameCol_ |-> cfg.nameCol, labelMap_ |-> lm.labelMap_,
                 parseIndices_ |-> <<>>, featureColumnOffset_ |-> 0]
    IN  IF lm.status # "ok" THEN [status |-> lm.status, isSparse_ |-> sparse]
        ELSE IF sparse
        THEN IF ~SparseColumnsInFront(lay.labelCol, cfg.weightCol, cfg.nameCol)
             THEN [status |-> "ArgumentError", isSparse_ |-> sparse]
             ELSE [base EXCEPT !.featureColumnOffset_ =
                                   FeatureColumnOffset(cfg.weightCol, cfg.nameCol)]
        ELSE [base EXCEPT !.parseIndices_ =
                              CollectIndices(lay.isNonFeature, 0, n, <<>>)]

\* --------------------------------------------------------------- state
VARIABLES
    pc,         \* where the program is
    numCols,    \* the number of header columns
    settings,   \* labelCol, weightCol, nameCol, labelMapFile as configured
    build,      \* how the program was compiled: NDEBUG, argument order
    layout,     \* the header analysis: isNonFeature, labelCol, featureNames
    parser,     \* the ExampleParser built by the constructor
    line,       \* the line last handed to Parse
    parsed,     \* what Parse made of it
    file,       \* the data file: its rows and line ends
    streamed,   \* the State of a loader with cache = false
    cached,     \* the State of a loader with cache = true, on the same file
    lastOp,     \* the call made last on the two cursors
    retS,       \* how that call ended on the streamed cursor
    retC,       \* how that call ended on the cached cursor
    calls,      \* MoveNext calls since the last Reset
    first       \* the current example after the constructor's Reset

vars == <<pc, numCols, settings, build, layout, parser, line, parsed, file,
          streamed, cached, lastOp, retS, retC, calls, first>>

loadVars == <<layout, parser, line, parsed>>
cursorVars == <<file, streamed, cached, lastOp, retS, retC, calls, first>>

NoLayout == [status |-> "none"]
NoResult == [status |-> "none"]
NoState == [status |-> "none"]
NoExample == [label |-> -1, none |-> TRUE]

\* ------------------------------------------------------------- inputs
\* Fields a dense row is made of: two numbers and a text that is no number.
DenseFields == {<<"1">>, <<"2">>, <<"x">>}

SparseTokens == {<<"0", ":", "1">>, <<"1", ":", "2">>, <<"2", ":", "1">>,
                 <<"-", "1", ":", "1">>, <<"x">>, <<"1">>, <<"1", ":", "x">>}

SeqsUpTo(S, lo, hi) == UNION {[1..k -> S] : k \in lo..hi}

DenseRows == SeqsUpTo(DenseFields, 1, MaxRowLen)

\* Sparse rows: three leading non-feature fields, then tokens.
SparseRows ==
    {<<<<"1">>, <<"2">>, <<"1">>>> \o toks : toks \in SeqsUpTo(SparseTokens, 0, MaxTokens)}

\* Rows of a label and one feature, the label a text.
LabelTexts == {<<"a">>, <<"b">>, <<"c">>, <<"1">>}

LabelRows == {<<k, <<"1">>>> : k \in LabelTexts}

\* The first data rows a model run tries.
ProbeRows ==
    IF settings.labelMapFile.given THEN LabelRows ELSE DenseRows \cup SparseRows

\* The lines of label map files: bare keys, key/value pairs, a pair whose
\* value is no number, a line of three fields.
MapLines == {<< <<"a">> >>, << <<"b">> >>, << <<"c">> >>,
             << <<"a">>, <<"1">> >>, << <<"b">>, <<"2">> >>,
             << <<"b">>, <<"-", "1">> >>, << <<"a">>, <<"x">> >>,
             << <<"c">>, <<"1">>, <<"2">> >>}

MapFiles == {[given |-> TRUE, lines |-> l] : l \in SeqsUpTo(MapLines, 0, MaxMapLines)}

ColChoices(n) == (-2)..n

IdleCursor ==
    /\ file = [rows |-> <<>>, headerEOL |-> TRUE, lastEOL |-> TRUE]
    /\ streamed = NoState
    /\ cached = NoState
    /\ lastOp = "none"
    /\ retS = "none"
    /\ retC = "none"
    /\ calls = 0
    /\ first = NoExample

\* ------------------------------------------------ the load, step by step
InitLoad ==
    /\ pc = "start"
    /\ numCols \in 1..MaxCols
    /\ settings \in [labelCol : ColChoices(numCols), weightCol : ColChoices(numCols),
                     nameCol : ColChoices(numCols), labelMapFile : {NoFile}]
    /\ build \in [NDEBUG : {FALSE}, nameFirst : BOOLEAN]
    /\ layout = NoLayout
    /\ parser = NoParser
    /\ line = <<>>
    /\ parsed = NoResult
    /\ IdleCursor

\* Lines 115-149 of the constructor.
Analyze ==
    /\ pc = "start"
    /\ layout' = AnalyzeHeader(numCols, settings.labelCol, settings.weightCol,
                               settings.nameCol)
    /\ pc' = IF layout'.status = "ok" THEN "analyzed" ELSE "failed"
    /\ UNCHANGED <<numCols, settings, build, parser, line, parsed, cursorVars>>

\* Lines 151-166: the probe of the first data row, the parser it selects,
\* and the Reset of State's constructor, which parses that row again.  A
\* load whose first row does not parse fails.
Construct ==
    /\ pc = "analyzed"
    /\ \E probe \in ProbeRows :
          LET p == ConstructParser(numCols, layout, settings, Len(probe))
              r == IF p.status = "ok" THEN Parse(p, probe, build.nameFirst)
                   ELSE NoResult
          IN  /\ parser' = p
              /\ parsed' = IF r.status = "Example" THEN NoResult
                           ELSE [status |-> r.status]
              /\ pc' = IF r.status = "Example" THEN "loaded" ELSE "failed"
    /\ UNCHANGED <<numCols, settings, build, layout, line, cursorVars>>

\* The rows a model run hands to Parse.
InputRows ==
    IF settings.labelMapFile.given THEN LabelRows
    ELSE IF parser.kind = "sparse" THEN SparseRows ELSE DenseRows

\* ExampleParser::Parse of a later line.  Parse is const and leaves the
\* parser as it was, so one call per behaviour covers every line.
ParseRow ==
    /\ pc = "loaded"
    /\ \E columns \in InputRows :
          /\ line' = columns
          /\ parsed' = Parse(parser, columns, build.nameFirst)
    /\ pc' = "parsed"
    /\ UNCHANGED <<numCols, settings, build, layout, parser, cursorVars>>

NextLoad == Analyze \/ Construct \/ ParseRow

SpecLoad == InitLoad /\ [][NextLoad]_vars

\* ====================================================== claims: the load
\* What the configuration designates, read off the settings alone.
Explicit == {c \in {settings.labelCol, settings.weightCol, settings.nameCol} : c # -1}

SettingsInRange == \A c \in Explicit : 0 <= c /\ c < numCols

\* The explicit indices name different columns.
SettingsDistinct ==
    /\ settings.labelCol # -1 /\ settings.weightCol # -1
           => settings.labelCol # settings.weightCol
    /\ settings.labelCol # -1 /\ settings.nameCol # -1
           => settings.labelCol # settings.nameCol
    /\ settings.weightCol # -1 /\ settings.nameCol # -1
           => settings.weightCol # settings.nameCol

\* The label column the specification asks for: the explicit one, else the
\* first column not designated as weight or name (-1 when there is none).
FreeCols == {c \in 0..(numCols - 1) : c \notin Explicit}

ExpectedLabelCol ==
    IF settings.labelCol # -1 THEN settings.labelCol
    ELSE IF FreeCols = {} THEN -1
    ELSE CHOOSE c \in FreeCols : \A d \in FreeCols : c <= d

ExpectedRoles == (Explicit \cup {ExpectedLabelCol}) \ {-1}

IsFeatureCol(c) == c \notin ExpectedRoles

\* The columns left as features, in header order.
ExpectedFeatureCols == SelectSeq([i \in 1..numCols |-> i - 1], IsFeatureCol)

\* C8: for every header and every configuration of explicit labelCol,
\* weightCol and nameCol, the load fails with a range error if an explicit
\* index is outside [0, numCols); otherwise every designated column is
\* marked non-feature, the first column left unmarked becomes the label when
\* none was given, the role indices are pairwise distinct and < numCols,
\* exactly one column is the label, and featureNames is the names of the
\* remaining columns in header order.  (Stated for configurations whose
\* explicit indices name different columns and leave a column for the label.)
C8_ColumnRoles ==
    (layout.status # "none" /\ SettingsDistinct /\ ExpectedLabelCol # -1) =>
        IF ~SettingsInRange THEN layout.status = "domain_error"
        ELSE /\ layout.status = "ok"
             /\ ~layout.oob
             /\ \A c \in Explicit : layout.isNonFeature[c]
             /\ layout.labelCol = ExpectedLabelCol
             /\ layout.labelCol \in 0..(numCols - 1)
             /\ settings.weightCol # -1 => layout.labelCol # settings.weightCol
             /\ settings.nameCol # -1 => layout.labelCol # settings.nameCol
             /\ layout.featureNames = ExpectedFeatureCols

\* The fields of a row read as floats.
AllNumeric(columns) == \A i \in 1..Len(columns) : Stof(columns[i]).ok

ExpectedDenseValues(columns) ==
    [i \in 1..Len(ExpectedFeatureCols) |->
        Stof(Col(columns, ExpectedFeatureCols[i])).value]

\* C6: with a dense parser, for every placement of the label, weight and
\* name columns, parsing a data row with exactly numCols (numeric) fields
\* yields a dense vector of exactly dimension = numCols - #roles floats: the
\* row's fields at the non-role columns in header order, no field of a
\* label, weight or name column among them.  (Stated for layouts that leave
\* at least one feature column.)
C6_DenseFeatures ==
    (/\ pc = "parsed" /\ parser.kind = "dense"
     /\ SettingsDistinct /\ SettingsInRange
     /\ Len(line) = numCols /\ AllNumeric(line)
     /\ Len(ExpectedFeatureCols) >= 1) =>
        /\ parsed.status = "Example"
        /\ parsed.example.features.kind = "dense"
        /\ Len(parsed.example.features.values) = numCols - Cardinality(ExpectedRoles)
        /\ parsed.example.features.values = ExpectedDenseValues(line)

\* C7: with a dense parser, Parse of a data row with fewer than numCols
\* fields fails with a format error (a FormatException, or the exception of
\* a numeric field that does not parse), for every placement of the label,
\* weight and name columns, and reads no field beyond the end of the row.
\* (Stated for layouts that leave at least one feature column.)
C7_ShortDenseRowFails ==
    (pc = "parsed" /\ parser.kind = "dense" /\ SettingsDistinct
     /\ Len(ExpectedFeatureCols) >= 1 /\ Len(line) < numCols) =>
        parsed.status \in {"FormatException", "invalid_argument"}

\* A sparse token of the shape <integer>:<float>.
WellFormedToken(tok) ==
    LET r == Strtol(tok)
    IN  r.rest # 1 /\ r.rest <= Len(tok) /\ tok[r.rest] = ":"

TokenAt(columns, i) == Col(columns, parser.featureColumnOffset_ + i)

TokenIndex(columns, i) == Strtol(TokenAt(columns, i)).value

TokenValue(columns, i) ==
    Strtof(TokenAt(columns, i), Strtol(TokenAt(columns, i)).rest + 1)

TokenCount(columns) == Len(columns) - parser.featureColumnOffset_

\* The row's tokens are well formed, their indices strictly ascending and
\* each in [0, dimension).
OrderedTokens(columns) ==
    \A i \in 0..(TokenCount(columns) - 1) :
        /\ WellFormedToken(TokenAt(columns, i))
        /\ 0 <= TokenIndex(columns, i) /\ TokenIndex(columns, i) < parser.dimension_
        /\ i > 0 => TokenIndex(columns, i - 1) < TokenIndex(columns, i)

ValidSparseRow(columns) ==
    /\ 0 < TokenCount(columns) /\ TokenCount(columns) <= parser.dimension_
    /\ OrderedTokens(columns)

\* The row holds all its leading non-feature fields, and they read as floats.
LeadingFieldsNumeric(columns) ==
    /\ Len(columns) >= parser.featureColumnOffset_
    /\ AllNumeric(SubSeq(columns, 1, parser.featureColumnOffset_))

\* C4: for every valid sparse row with c feature tokens, 0 < c <= dimension,
\* ParseFeatures returns a sparse vector of the schema dimension whose i-th
\* (index, value) pair is the index and value parsed from the i-th token,
\* written by loop counter into arrays of length c with no write outside
\* 0..c-1.
C4_SparsePairsPositional ==
    (pc = "parsed" /\ parser.kind = "sparse" /\ SettingsDistinct
     /\ LeadingFieldsNumeric(line) /\ ValidSparseRow(line)) =>
        /\ parsed.status = "Example"
        /\ parsed.example.oob = {}
        /\ parsed.example.features.dimension = parser.dimension_
        /\ DOMAIN parsed.example.features.indices = 0..(TokenCount(line) - 1)
        /\ \A i \in 0..(TokenCount(line) - 1) :
              /\ parsed.example.features.indices[i] = TokenIndex(line, i)
              /\ parsed.example.features.values[i] = TokenValue(line, i)

\* C5: ParseFeatures fails with a format error for every row whose number of
\* feature tokens is zero or greater than dimension or whose indices are not
\* strictly ascending within [0, dimension); and for every row it accepts the
\* decoded indices, those of the vector it returns, are strictly ascending
\* and each lies in [0, dimension).  (Stated for rows that hold all their
\* leading non-feature fields, so that Parse reaches ParseFeatures.)
C5_SparseRejectsOrOrdered ==
    (pc = "parsed" /\ parser.kind = "sparse" /\ SettingsDistinct
     /\ LeadingFieldsNumeric(line)) =>
        /\ ~ValidSparseRow(line) => parsed.status = "FormatException"
        /\ parsed.status = "Example" =>
              \A i \in DOMAIN parsed.example.features.indices :
                  /\ 0 <= parsed.example.features.indices[i]
                  /\ parsed.example.features.indices[i] < parser.dimension_
                  /\ i > 0 => parsed.example.features.indices[i - 1]
                                 < parsed.example.features.indices[i]

\* ------------------------------------------- the load with a label map
InitLabel ==
    /\ pc = "start"
    /\ numCols = 2
    /\ settings \in [labelCol : {-1}, weightCol : {-1}, nameCol : {-1},
                     labelMapFile : MapFiles]
    /\ build = [NDEBUG |-> FALSE, nameFirst |-> FALSE]
    /\ layout = NoLayout
    /\ parser = NoParser
    /\ line = <<>>
    /\ parsed = NoResult
    /\ IdleCursor

SpecLabel == InitLabel /\ [][NextLoad]_vars

\* ================================================= claims: the label map
MapLinesGiven == settings.labelMapFile.lines

OneColumnFile ==
    /\ Len(MapLinesGiven) >= 2
    /\ \A i \in 1..Len(MapLinesGiven) : Len(MapLinesGiven[i]) = 1

TwoColumnFile ==
    /\ Len(MapLinesGiven) >= 2
    /\ \A i \in 1..Len(MapLinesGiven) :
          Len(MapLinesGiven[i]) = 2 /\ Stof(MapLinesGiven[i][2]).ok

DistinctKeys ==
    \A i, j \in 1..Len(MapLinesGiven) :
        i # j => MapLinesGiven[i][1] # MapLinesGiven[j][1]

\* The label text of the parsed line.
LabelText == line[1]

KeyLines == {i \in 1..Len(MapLinesGiven) : MapLinesGiven[i][1] = LabelText}

LastKeyLine == CHOOSE i \in KeyLines : \A j \in KeyLines : j <= i

\* C10: label resolution through a loaded label map.  For a one-column file
\* with distinct keys k0..k(n-1), n >= 2, a row whose label text is ki gets
\* label i, and a one-column file with a duplicate key fails to load; for a
\* two-column map the label is the value stored for the key; with a
\* non-empty map a row whose label text is no key makes Parse fail, and never
\* yields a default or raw-float label.
C10_LabelMapLookup ==
    /\ (parser.status # "none" /\ OneColumnFile /\ ~DistinctKeys)
           => parser.status = "FormatException"
    /\ (pc = "parsed" /\ OneColumnFile /\ DistinctKeys /\ KeyLines # {})
           => /\ parsed.status = "Example"
              /\ \A i \in KeyLines : parsed.example.label = i - 1
    /\ (pc = "parsed" /\ TwoColumnFile /\ KeyLines # {})
           => /\ parsed.status = "Example"
              /\ parsed.example.label = Stof(MapLinesGiven[LastKeyLine][2]).value
    /\ (pc = "parsed" /\ (OneColumnFile \/ TwoColumnFile) /\ KeyLines = {})
           => parsed.status = "out_of_range"

\* A row labelled with the second key of a one-column map got label 1.
C10_Witness ==
    /\ pc = "parsed" /\ OneColumnFile /\ DistinctKeys
    /\ Len(MapLinesGiven) = 3
    /\ LabelText = MapLinesGiven[2][1]
    /\ parsed.status = "Example" /\ parsed.example.label = 1

\* ============================================================ the cursor
\* An ifstream over the data rows: pos is the row the next getline reads
\* (row 1 is at dataSeekPosition_), with the stream's eofbit and failbit.
DataSeekPosition == [pos |-> 1, eofbit |-> FALSE, failbit |-> FALSE]

\* getline(fstream_, line): nothing is read from a stream that is not good;
\* at the end of the file it sets eofbit and failbit; reading a last line
\* that no newline ends sets eofbit.
Getline(fs, f) ==
    IF fs.eofbit \/ fs.failbit
    THEN [ok |-> FALSE, text |-> EmptyLine, fs |-> [fs EXCEPT !.failbit = TRUE]]
    ELSE IF fs.pos > Len(f.rows)
    THEN [ok |-> FALSE, text |-> EmptyLine,
          fs |-> [fs EXCEPT !.eofbit = TRUE, !.failbit = TRUE]]
    ELSE [ok |-> TRUE, text |-> f.rows[fs.pos],
          fs |-> [pos |-> fs.pos + 1, failbit |-> FALSE,
                  eofbit |-> (fs.pos = Len(f.rows) /\ ~f.lastEOL)]]

\* fstream_.seekg(pos): clears eofbit, and moves only a stream that has not
\* failed.
Seekg(fs, pos) ==
    IF fs.failbit THEN [fs EXCEPT !.eofbit = FALSE]
    ELSE [fs EXCEPT !.eofbit = FALSE, !.pos = pos]

NullPtr == [at |-> "null"]

\* The example current_ points to.
Current(st) ==
    IF st.current_.at = "heap" THEN st.current_.ex
    ELSE IF st.current_.at = "cache" /\ st.current_.idx \in 1..Len(st.cache_)
    THEN st.cache_[st.current_.idx]
    ELSE NoExample

\* The line Reset parses: assert(getline(fstream_, line)) reads it, and
\* aborts when there is none; compiled with NDEBUG the assert and its
\* getline are gone and line stays empty.
ResetLine(fs, f, b) ==
    IF b.NDEBUG THEN [ok |-> TRUE, text |-> EmptyLine, fs |-> fs]
    ELSE Getline(fs, f)

\* Reset once the line g is read and parsed to r: the previous current_ is
\* deleted before Parse runs.
ResetParsed(st, g, r) ==
    IF r.status # "Example"
    THEN [outcome |-> r.status,
          st |-> [st EXCEPT !.fstream_ = g.fs,
                            !.current_ = IF @.at = "null" THEN @
                                         ELSE [at |-> "deleted"]]]
    ELSE [outcome |-> "void",
          st |-> [st EXCEPT !.fstream_ = g.fs,
                            !.current_ = [at |-> "heap", ex |-> r.example]]]

ResetRead(st, g, p, b) ==
    IF ~g.ok THEN [outcome |-> "abort", st |-> [st EXCEPT !.fstream_ = g.fs]]
    ELSE ResetParsed(st, g, Parse(p, g.text, b.nameFirst))

\* State::Reset.
Reset(st, p, f, b) ==
    IF st.cache_ = <<>>
    THEN ResetRead(st, ResetLine(Seekg(st.fstream_, DataSeekPosition.pos), f, b), p, b)
    ELSE [outcome |-> "void", st |-> [st EXCEPT !.current_ = [at |-> "cache", idx |-> 1]]]

\* A MoveNext that reports the next row but leaves the old example current.
MoveNextParsed_KeepsCurrent(st, g, r) ==
    IF r.status # "Example"
    THEN [outcome |-> r.status, st |-> [st EXCEPT !.fstream_ = g.fs]]
    ELSE [outcome |-> "true", st |-> [st EXCEPT !.fstream_ = g.fs]]

\* MoveNext once the line g is read and parsed to r.
MoveNextParsed(st, g, r) ==
    IF r.status # "Example"
    THEN [outcome |-> r.status, st |-> [st EXCEPT !.fstream_ = g.fs]]
    ELSE [outcome |-> "true",
          st |-> [st EXCEPT !.fstream_ = g.fs,
                            !.current_ = [at |-> "heap", ex |-> r.example]]]

\* MoveNext once getline has run: no line, no row.
MoveNextRead(st, g, p, b) ==
    IF ~g.ok THEN [outcome |-> "false", st |-> [st EXCEPT !.fstream_ = g.fs]]
    ELSE MoveNextParsed(st, g, Parse(p, g.text, b.nameFirst))

\* Whether the advanced pointer is still inside the cache:
\* ++current_ <= &cache_.back().
InsideCache(idx, n) == idx <= n

\* State::MoveNext.
MoveNext(st, p, f, b) ==
    IF st.cache_ = <<>> THEN MoveNextRead(st, Getline(st.fstream_, f), p, b)
    ELSE IF st.current_.at # "cache" THEN [outcome |-> "UB", st |-> st]
    ELSE [outcome |-> IF InsideCache(st.current_.idx + 1, Len(st.cache_))
                      THEN "true" ELSE "false",
          st |-> [st EXCEPT !.current_.idx = @ + 1]]

\* The drain of Cache(): the current example, then every example MoveNext
\* brings, collected in acc; m is what the last MoveNext returned.
RECURSIVE Drain(_, _, _, _, _)
Drain(m, acc, p, f, b) ==
    IF m.outcome = "true"
    THEN Drain(MoveNext(m.st, p, f, b), Append(acc, Current(m.st)), p, f, b)
    ELSE IF m.outcome = "false" THEN [outcome |-> "void", st |-> m.st, all |-> acc]
    ELSE [outcome |-> m.outcome, st |-> m.st, all |-> acc]

CacheDrained(d, p, f, b) ==
    IF d.outcome # "void" THEN [outcome |-> d.outcome, st |-> d.st]
    ELSE Reset([d.st EXCEPT !.cache_ = d.all], p, f, b)

\* StreamingExamples::State::Cache: drains the cursor into cache_ and
\* resets it.
Cache(st, p, f, b) ==
    CacheDrained(Drain([outcome |-> "true", st |-> st], <<>>, p, f, b), p, f, b)

\* State's constructor: takes the stream as the probe left it and resets.
NewState(fs, p, f, b) ==
    Reset([fstream_ |-> fs, current_ |-> NullPtr, cache_ |-> <<>>], p, f, b)

\* What a call left of a cursor.
After(res) ==
    [status |-> IF res.outcome = "abort" THEN "aborted" ELSE "ok",
     fstream_ |-> res.st.fstream_, current_ |-> res.st.current_, cache_ |-> res.st.cache_]

Failed(why) == [status |-> "failed", why |-> why]

Strip(st) == [fstream_ |-> st.fstream_, current_ |-> st.current_, cache_ |-> st.cache_]

\* How a call ended, as the caller sees it.
Ended(cur) ==
    IF cur.status = "ok" THEN "void"
    ELSE IF cur.status = "aborted" THEN "abort" ELSE cur.why

\* How Cache() left the cached cursor.
CacheEnded(c) == IF c.outcome = "void" THEN After(c) ELSE Failed(c.outcome)

\* The probe of the constructor: the first data line and the stream after
\* it; a failed getline leaves firstDataLine empty.
Probe(f) == Getline(DataSeekPosition, f)

\* The rows of the files read through the cursor.
CursorRows == {<< <<"1">>, <<"2">> >>, << <<"2">>, <<"1">> >>, << <<"x">>, <<"1">> >>,
               << <<"1">> >>, << <<"1">>, <<"2">>, <<"1">> >>,
               << <<"1">>, <<"2">>, <<"1">>, <<"0", ":", "1">> >>,
               << <<"2">>, <<"1">>, <<"2">>, <<"1", ":", "2">> >>}

\* A header of two columns with nothing configured, or of five columns with
\* label, weight and name configured as the first three.
CursorSetups ==
    {[numCols |-> 2, labelCol |-> -1, weightCol |-> -1, nameCol |-> -1],
     [numCols |-> 5, labelCol |-> 0, weightCol |-> 1, nameCol |-> 2]}

InitCursor ==
    /\ pc = "start"
    /\ \E su \in CursorSetups :
          /\ numCols = su.numCols
          /\ settings = [labelCol |-> su.labelCol, weightCol |-> su.weightCol,
                         nameCol |-> su.nameCol, labelMapFile |-> NoFile]
    /\ build \in [NDEBUG : BOOLEAN, nameFirst : BOOLEAN]
    /\ layout = NoLayout
    /\ parser = NoParser
    /\ line = <<>>
    /\ parsed = NoResult
    /\ file \in {f \in [rows : SeqsUpTo(CursorRows, 0, MaxRows),
                        headerEOL : BOOLEAN, lastEOL : BOOLEAN] :
                    /\ f.rows # <<>> => f.headerEOL
                    /\ f.rows = <<>> => f.lastEOL = f.headerEOL}
    /\ streamed = NoState
    /\ cached = NoState
    /\ lastOp = "none"
    /\ retS = "none"
    /\ retC = "none"
    /\ calls = 0
    /\ first = NoExample

\* The constructor from the probe on: g is the probe's getline, lay the
\* header analysis.  The result holds the parser and the State of a loader
\* with cache = false (streamed) and of one with cache = true (cached).
LoadParsed(lay, p, s, f, b) ==
    IF s.outcome = "abort"
    THEN [parser |-> p, streamed |-> After(s), cached |-> After(s)]
    ELSE IF s.outcome # "void"
    THEN [parser |-> p, streamed |-> Failed(s.outcome), cached |-> Failed(s.outcome)]
    ELSE [parser |-> p, streamed |-> After(s),
          cached |-> CacheEnded(Cache(s.st, p, f, b))]

LoadProbed(lay, g, p, f, b) ==
    IF p.status # "ok"
    THEN [parser |-> p, streamed |-> Failed(p.status), cached |-> Failed(p.status)]
    ELSE LoadParsed(lay, p, NewState(g.fs, p, f, b), f, b)

FirstDataLine(g) == IF g.ok THEN g.text ELSE EmptyLine

LoadAnalyzed(n, cfg, lay, g, f, b) ==
    IF lay.status # "ok"
    THEN [parser |-> NoParser, streamed |-> Failed(lay.status),
          cached |-> Failed(lay.status)]
    ELSE LoadProbed(lay, g, ConstructParser(n, lay, cfg, Len(FirstDataLine(g))), f, b)

\* The constructor of TextLoader, once with cache = false and once with
\* cache = true, on the same file and settings.  A header that ends the
\* file without a newline leaves the stream not good.
Load ==
    /\ pc = "start"
    /\ IF ~file.headerEOL
       THEN /\ layout' = NoLayout
            /\ parser' = NoParser
            /\ streamed' = Failed("ArgumentError")
            /\ cached' = Failed("ArgumentError")
       ELSE /\ layout' = AnalyzeHeader(numCols, settings.labelCol, settings.weightCol,
                                       settings.nameCol)
            /\ \E res \in {LoadAnalyzed(numCols, settings, layout', Probe(file),
                                        file, build)} :
                  /\ parser' = res.parser
                  /\ streamed' = res.streamed
                  /\ cached' = res.cached
    /\ first' = IF streamed'.status = "ok" THEN Current(streamed') ELSE first
    /\ pc' = IF streamed'.status = "ok" THEN "loaded"
             ELSE IF streamed'.status = "aborted" THEN "aborted" ELSE "failed"
    /\ lastOp' = "ctor"
    /\ retS' = Ended(streamed')
    /\ retC' = Ended(cached')
    /\ calls' = 0
    /\ UNCHANGED <<numCols, settings, build, line, parsed, file>>

\* The caller calls Reset on both cursors.
CallReset ==
    /\ pc = "loaded"
    /\ \E s \in {Reset(Strip(streamed), parser, file, build)} :
          /\ streamed' = After(s)
          /\ retS' = s.outcome
          /\ pc' = IF s.outcome = "abort" THEN "aborted" ELSE "loaded"
    /\ IF cached.status = "ok"
       THEN \E c \in {Reset(Strip(cached), parser, file, build)} :
               cached' = After(c) /\ retC' = c.outcome
       ELSE UNCHANGED <<cached, retC>>
    /\ lastOp' = "Reset"
    /\ calls' = 0
    /\ UNCHANGED <<numCols, settings, build, layout, parser, line, parsed, file, first>>

\* The caller calls MoveNext on both cursors.
CallMoveNext ==
    /\ pc = "loaded"
    /\ calls < MaxCalls
    /\ \E s \in {MoveNext(Strip(streamed), parser, file, build)} :
          /\ streamed' = After(s)
          /\ retS' = s.outcome
    /\ IF cached.status = "ok"
       THEN \E c \in {MoveNext(Strip(cached), parser, file, build)} :
               cached' = After(c) /\ retC' = c.outcome
       ELSE UNCHANGED <<cached, retC>>
    /\ lastOp' = "MoveNext"
    /\ calls' = calls + 1
    /\ UNCHANGED <<pc, numCols, settings, build, layout, parser, line, parsed, file, first>>

NextCursor == Load \/ CallReset \/ CallMoveNext

SpecCursor == InitCursor /\ [][NextCursor]_vars

\* =================================================== claims: the cursor
RowCount == Len(file.rows)

\* What Parse makes of data row i.
RowParse(i) == Parse(parser, file.rows[i], build.nameFirst)

\* Every data row of the file parses.
FileValid == \A i \in 1..RowCount : RowParse(i).status = "Example"

\* Exhausted: the stream has failed at the end of the file.
Exhausted(cur) == cur.fstream_.failbit

\* Positioned: current_ points to an example.
Positioned(cur) ==
    \/ cur.current_.at = "heap"
    \/ cur.current_.at = "cache" /\ cur.current_.idx \in 1..Len(cur.cache_)

\* C1: in non-cached mode, for every file with a data row and every n >= 0,
\* Reset after n calls to MoveNext (also calls made after MoveNext has
\* returned false) succeeds and makes the current example the parsed first
\* data row, the one the constructor's Reset produced.
C1_ResetReturnsToFirstRow ==
    lastOp = "Reset" =>
        /\ streamed.status = "ok"
        /\ retS = "void"
        /\ Current(streamed) = first
        /\ Current(streamed) = RowParse(1).example

\* C2: in non-cached mode, for a file of N >= 1 (parsable) data rows, after
\* Reset the k-th consecutive MoveNext returns true and makes the parsed
\* (k+1)-th row current when k < N, and returns false when k >= N: every row
\* becomes current once, in file order, and once MoveNext has returned false
\* the cursor is Exhausted and every further MoveNext returns false too.
C2_MoveNextWalksRows ==
    (lastOp = "MoveNext" /\ FileValid) =>
        IF calls < RowCount
        THEN /\ retS = "true"
             /\ Current(streamed) = RowParse(calls + 1).example
        ELSE /\ retS = "false"
             /\ Exhausted(streamed)

\* The call after the one that returned false returns false again, the last
\* row still current.
C2_Witness ==
    /\ lastOp = "MoveNext" /\ FileValid
    /\ RowCount >= 2 /\ calls = RowCount + 1
    /\ retS = "false" /\ Exhausted(streamed)
    /\ Current(streamed) = RowParse(RowCount).example

\* C3: the cached cursor and the non-cached cursor satisfy the same
\* contract: for the same file and the same calls of Reset and MoveNext the
\* cached cursor ends every call as the file-backed one does (the same
\* boolean from MoveNext) and, whenever the call leaves it Positioned,
\* exposes the same current example.
C3_CachedMatchesStreamed ==
    (lastOp \in {"Reset", "MoveNext"} /\ cached.status = "ok") =>
        /\ retC = retS
        /\ Positioned(cached) =>
              Positioned(streamed) /\ Current(cached) = Current(streamed)

\* C9: the loader selects the format from the probe row's field count:
\* equal to numCols the dense parser, less the sparse parser, greater the
\* load fails; and a load that gets to the Reset of State's constructor has
\* a first data row, so that Reset finds its line and its assertion holds.
C9_ProbeGuaranteesFirstRow ==
    (lastOp = "ctor" /\ file.headerEOL /\ layout.status = "ok") =>
        /\ Len(FirstDataLine(Probe(file))) > numCols
               => streamed.status = "failed" /\ streamed.why = "domain_error"
        /\ Len(FirstDataLine(Probe(file))) = numCols
               => parser.status = "ok" /\ parser.kind = "dense"
        /\ Len(FirstDataLine(Probe(file))) < numCols => parser.isSparse_
        /\ parser.status = "ok" => RowCount >= 1 /\ streamed.status # "aborted"

=============================================================================
